---- MODULE Spec2Model ----
(***************************************************************************)
(* One client request against the local relay of gnaladunning.github.io.   *)
(*                                                                         *)
(*   endpoint = "poll_sse"   GET /sse  of src/server.js  (poll mode)       *)
(*   endpoint = "proxy"      GET /proxy of src/unnamed/part_000 (relay)    *)
(*   endpoint = "relay_sse"  GET /sse  of src/unnamed/part_000 (relay)     *)
(*                                                                         *)
(* Every action is one run-to-completion step of the JavaScript event      *)
(* loop: the synchronous code between two awaits, or one event callback.   *)
(***************************************************************************)
EXTENDS Integers, Sequences, FiniteSets, TLC

VARIABLES
  endpoint,        \* which route handles the request
  ALLOWED_HOSTS,   \* process-wide allowlist (environment)
  target,          \* req.query.url
  intervalParam,   \* req.query.interval
  pc,              \* position of the route handler / pollLoop
  pumpPc,          \* position of the relay pump
  fetchCalls,      \* number of calls of fetch() made for this request
  resStatus,       \* status code set on the response (0: not set yet)
  resHeaders,      \* headers set on the response, by lowercased name
  copied,          \* header names passed to res.setHeader by the forEach
  upstreamHeaders, \* header names of the upstream response
  sends,           \* log of res.send() calls
  written,         \* log of res.write() calls (chunks or frames)
  endCalls,        \* number of calls of res.end()
  writableEnded,   \* res.writableEnded
  readerCreated,   \* remote.body.getReader() has been called
  cancelCalls,     \* number of calls of reader.cancel()
  upRead,          \* chunks read from the upstream body so far
  upstream,        \* the upstream body stream: none, open, ended, errored, cancelled
  clientClosed,    \* the client has disconnected ('close' was emitted)
  listener,        \* the 'close' listener is registered on req
  stopped,         \* pollLoop's stopped flag
  interval,        \* pollLoop's effective interval in ms
  elapsed,         \* Date.now() - start of the current sleep
  logged,          \* labels passed to console.error so far
  r,               \* pollLoop's response of the iteration, body until read
  exText,          \* Sample Extractor on its own: the text given
  exOut,           \* ... the sequence it returned
  exDone           \* ... and whether it has run

vars == <<endpoint, ALLOWED_HOSTS, target, intervalParam, pc, pumpPc,
          fetchCalls, resStatus, resHeaders, copied, upstreamHeaders, sends,
          written, endCalls, writableEnded, readerCreated, cancelCalls,
          upRead, upstream, clientClosed, listener, stopped, interval, elapsed, logged, r,
          exText, exOut, exDone>>

reqVars == <<endpoint, ALLOWED_HOSTS, target, intervalParam>>
relayVars == <<pumpPc, copied, upstreamHeaders, readerCreated, cancelCalls, upRead,
               upstream>>
pollVars == <<stopped, interval, elapsed>>
exVars == <<exText, exOut, exDone>>

-----------------------------------------------------------------------------
(* Bounds *)

MaxFetches == 2   \* poll iterations explored per connection
MaxChunks == 2    \* upstream chunks explored per relayed body
MaxTextLen == 4   \* texts given to the Sample Extractor on its own: every
                  \* text over TextAlphabet up to this length

-----------------------------------------------------------------------------
(* Request and configuration values *)

NoParam == "<undefined>"

Endpoints == {"poll_sse", "proxy", "relay_sse"}

Targets == {NoParam, "", "not a url", "http://rs.local/sse",
            "HTTP://RS.LOCAL/x", "http://evil.example/data"}

AllowSets == {{}, {"rs.local"}, {"RS.LOCAL", "node.example.com"}}

IntervalParams == {NoParam, "0", "-100", "120"}

Chunks == {"a", "b"}

UpstreamHeaderNames == {"Connection", "te", "Transfer-Encoding",
                        "content-type", "Cache-Control"}

RelayStatuses == {200, 404}

\* bodies of JSON responses, as bytes
JsonBodies == {
  <<91, 49, 44, 32, 50, 93>>,   \* [1, 2]
  <<123, 34, 115, 97, 109, 112, 108, 101, 115, 34, 58, 91, 49, 44, 50, 93, 125>>,   \* {"samples":[1,2]}
  <<123, 34, 110, 34, 58, 32, 45, 53, 125>>,   \* {"n": -5}
  <<55>>,   \* 7
  <<34, 97, 55, 34>>,   \* "a7"
  <<116, 114, 117, 101>>,   \* true
  <<110, 117, 108, 108>>,   \* null
  <<123>> }  \* {

\* bodies of other responses, as bytes
TextBodies == {
  <<104, 105>>,   \* hi
  <<116, 61, 55>>,   \* t=7
  <<195, 169>>,   \* e with an acute accent, in UTF-8
  <<104, 255>> }  \* h and a byte that is not UTF-8

NoBody == <<>>

\* what fetch() can resolve with: status, content-type header and the body
\* upstream sends (read later, by r.json() or r.text())
Responses ==
  {[status |-> 404, ct |-> "text/plain", body |-> NoBody]}
  \cup {[status |-> 200, ct |-> "application/json; charset=utf-8", body |-> b] :
          b \in JsonBodies}
  \cup {[status |-> 200, ct |-> "text/plain", body |-> b] : b \in TextBodies}
  \cup {[status |-> 200, ct |-> NoParam, body |-> <<104, 105>>]}

NoResponse == [status |-> 0, ct |-> NoParam, body |-> NoBody]

-----------------------------------------------------------------------------
(* Library behaviour on the values above *)

\* JavaScript truthiness of a query parameter: undefined and '' are falsy
Falsy(s) == s \in {NoParam, ""}

\* new URL(s) succeeds (WHATWG parser, no base): an absolute URL with a scheme
UrlParses(s) == s \in {"http://rs.local/sse", "HTTP://RS.LOCAL/x",
                       "http://evil.example/data"}

\* new URL(s).hostname: the host, lowercased by the parser
Hostname(s) ==
  CASE s = "http://rs.local/sse" -> "rs.local"
    [] s = "HTTP://RS.LOCAL/x" -> "rs.local"
    [] s = "http://evil.example/data" -> "evil.example"

\* String.prototype.toLowerCase on header names
ToLower(k) ==
  CASE k = "Connection" -> "connection"
    [] k = "Transfer-Encoding" -> "transfer-encoding"
    [] k = "Cache-Control" -> "cache-control"
    [] k = "Content-Type" -> "content-type"
    [] k = "Access-Control-Allow-Origin" -> "access-control-allow-origin"
    [] k = "Access-Control-Allow-Headers" -> "access-control-allow-headers"
    [] OTHER -> k

\* parseInt(s) is NaN
ParseIntNaN(s) == s \in {NoParam, "abc", ""}

\* parseInt(s) when it is a number
ParseInt(s) ==
  CASE s = "0" -> 0
    [] s = "-100" -> -100
    [] s = "120" -> 120

\* Response.ok
Ok(status) == status >= 200 /\ status <= 299

\* ct.includes('application/json')
IsJsonCt(ct) == ct = "application/json; charset=utf-8"

\* res.setHeader(k, v): Node keeps one value per case-insensitive name
SetHeader(h, k, v) ==
  [x \in DOMAIN h \cup {ToLower(k)} |-> IF x = ToLower(k) THEN v ELSE h[x]]

-----------------------------------------------------------------------------
(* Text and numbers.  A text is a sequence of character codes; a number is  *)
(* the decimal m * 10^e, with m not divisible by 10 (0 is m = 0, e = 0).    *)

SignChars == {43, 45}      \* + -
DigitChars == 48..57       \* 0 .. 9
DotChars == {46}           \* .
ExpChars == {69, 101}      \* E e

RECURSIVE Normal(_, _)
Normal(m, e) ==
  IF m = 0 THEN [m |-> 0, e |-> 0]
  ELSE IF m % 10 = 0 THEN Normal(m \div 10, e + 1)
  ELSE [m |-> m, e |-> e]

\* the number of digits of t from position p on
RECURSIVE DigitRun(_, _)
DigitRun(t, p) ==
  IF p >= 1 /\ p <= Len(t) /\ t[p] \in DigitChars THEN 1 + DigitRun(t, p + 1) ELSE 0

\* the value of a sequence of digits, read after acc
RECURSIVE DigitsValue(_, _)
DigitsValue(ds, acc) ==
  IF ds = <<>> THEN acc
  ELSE DigitsValue(Tail(ds), 10 * acc + (Head(ds) - 48))

\* parseFloat(s) for a text s the regular expression matched
parseFloat(s) ==
  LET neg == Len(s) >= 1 /\ s[1] = 45
      p0 == IF Len(s) >= 1 /\ s[1] \in SignChars THEN 2 ELSE 1
      ni == DigitRun(s, p0)
      hasDot == p0 + ni <= Len(s) /\ s[p0 + ni] \in DotChars
      pf == IF hasDot THEN p0 + ni + 1 ELSE p0 + ni
      nf == IF hasDot THEN DigitRun(s, pf) ELSE 0
      pe == pf + nf
      hasExp == pe <= Len(s) /\ s[pe] \in ExpChars
      eneg == hasExp /\ pe + 1 <= Len(s) /\ s[pe + 1] = 45
      pd == IF hasExp /\ pe + 1 <= Len(s) /\ s[pe + 1] \in SignChars
              THEN pe + 2 ELSE pe + 1
      ex == IF hasExp THEN DigitsValue(SubSeq(s, pd, Len(s)), 0) ELSE 0
      mant == DigitsValue(SubSeq(s, p0, p0 + ni - 1) \o SubSeq(s, pf, pf + nf - 1), 0)
  IN Normal(IF neg THEN 0 - mant ELSE mant, (IF eneg THEN 0 - ex ELSE ex) - nf)

-----------------------------------------------------------------------------
(* Sample Extractor: the regular expression                               *)
(*   /[-+]?\d*\.?\d+(?:[eE][-+]?\d+)?/g   matched as a backtracking engine  *)
(* matches it.  Positions are 1-based; an end is the position after the    *)
(* match, and 0 is "no match".                                             *)

\* (?:[eE][-+]?\d+)? from position q: the optional group, sign tried first
ExpEnd(t, q) ==
  IF q <= Len(t) /\ t[q] \in ExpChars
    THEN LET signed == q + 1 <= Len(t) /\ t[q + 1] \in SignChars
         IN IF signed /\ DigitRun(t, q + 2) >= 1
              THEN q + 2 + DigitRun(t, q + 2)
            ELSE IF DigitRun(t, q + 1) >= 1
              THEN q + 1 + DigitRun(t, q + 1)
            ELSE q
    ELSE q

\* \d*\.?\d+ from position p, with \d* given k digits first and fewer on
\* backtracking; \.? tries the dot first; \d+ takes every digit it can
RECURSIVE MantissaEnd(_, _, _)
MantissaEnd(t, p, k) ==
  LET q == p + k
      withDot == IF q <= Len(t) /\ t[q] \in DotChars /\ DigitRun(t, q + 1) >= 1
                   THEN q + 1 + DigitRun(t, q + 1) ELSE 0
      noDot == IF DigitRun(t, q) >= 1 THEN q + DigitRun(t, q) ELSE 0
  IN IF withDot # 0 THEN withDot
     ELSE IF noDot # 0 THEN noDot
     ELSE IF k = 0 THEN 0
     ELSE MantissaEnd(t, p, k - 1)

\* MatchAt without the optional sign in the expression
MatchAt_NoSign(t, i) ==
  LET m == MantissaEnd(t, i, DigitRun(t, i))
  IN IF m # 0 THEN ExpEnd(t, m) ELSE 0

\* the whole expression tried at position i: [-+]? takes the sign first
MatchAt(t, i) ==
  LET signed == i <= Len(t) /\ t[i] \in SignChars
      m1 == IF signed THEN MantissaEnd(t, i + 1, DigitRun(t, i + 1)) ELSE 0
      m0 == MantissaEnd(t, i, DigitRun(t, i))
  IN IF m1 # 0 THEN ExpEnd(t, m1)
     ELSE IF m0 # 0 THEN ExpEnd(t, m0)
     ELSE 0

\* re.exec(text) with re.lastIndex = i - 1: the first position from i on at
\* which the expression matches, as <<start, end>>, or <<0, 0>> for null
RECURSIVE Exec(_, _)
Exec(t, i) ==
  IF i > Len(t) THEN <<0, 0>>
  ELSE IF MatchAt(t, i) # 0 THEN <<i, MatchAt(t, i)>>
  ELSE Exec(t, i + 1)

\* while ((m = re.exec(text)) !== null) out.push(parseFloat(m[0]))
RECURSIVE ExecLoop(_, _, _)
ExecLoop(t, i, out) ==
  LET m == Exec(t, i)
  IN IF m[1] = 0 THEN out
     ELSE ExecLoop(t, m[2], Append(out, parseFloat(SubSeq(t, m[1], m[2] - 1))))

parseTextToNumbers(t) == ExecLoop(t, 1, <<>>)

-----------------------------------------------------------------------------
(* Bytes and text: UTF-8 and base64 as Buffer does them *)

ReplacementChar == {65533}   \* U+FFFD

\* buffer.toString(): UTF-8 bytes to character codes, one U+FFFD for a byte
\* that starts no character (bodies here hold no 3- or 4-byte forms)
RECURSIVE Utf8Decode(_)
Utf8Decode(b) ==
  IF b = <<>> THEN <<>>
  ELSE IF b[1] < 128 THEN <<b[1]>> \o Utf8Decode(Tail(b))
  ELSE IF b[1] >= 194 /\ b[1] <= 223 /\ Len(b) >= 2 /\ b[2] >= 128 /\ b[2] <= 191
    THEN <<(b[1] - 192) * 64 + (b[2] - 128)>> \o Utf8Decode(Tail(Tail(b)))
  ELSE <<CHOOSE c \in ReplacementChar : TRUE>> \o Utf8Decode(Tail(b))

\* Buffer.from(txt): character codes to UTF-8 bytes
RECURSIVE Utf8Encode(_)
Utf8Encode(t) ==
  IF t = <<>> THEN <<>>
  ELSE LET c == t[1]
       IN (IF c < 128 THEN <<c>>
           ELSE IF c < 2048 THEN <<192 + (c \div 64), 128 + (c % 64)>>
           ELSE <<224 + (c \div 4096), 128 + ((c \div 64) % 64), 128 + (c % 64)>>)
          \o Utf8Encode(Tail(t))

Base64Pad == {64}   \* the place of = after the 64 digits

\* buf.toString('base64'): the base64 digits (0..63) of the bytes, padded
RECURSIVE Base64Encode(_)
Base64Encode(b) ==
  IF b = <<>> THEN <<>>
  ELSE IF Len(b) = 1
    THEN <<b[1] \div 4, (b[1] % 4) * 16>> \o <<CHOOSE x \in Base64Pad : TRUE,
                                              CHOOSE x \in Base64Pad : TRUE>>
  ELSE IF Len(b) = 2
    THEN <<b[1] \div 4, (b[1] % 4) * 16 + (b[2] \div 16), (b[2] % 16) * 4>>
         \o <<CHOOSE x \in Base64Pad : TRUE>>
  ELSE <<b[1] \div 4, (b[1] % 4) * 16 + (b[2] \div 16),
         (b[2] % 16) * 4 + (b[3] \div 64), b[3] % 64>>
       \o Base64Encode(SubSeq(b, 4, Len(b)))

-----------------------------------------------------------------------------
(* JSON values: [t |-> "null"], boolean, number (an integer), string (its   *)
(* character codes), array (of integers), object (one key k and its value) *)

\* JSON.parse of the bodies above
JsonParse(b) ==
  CASE b = <<91, 49, 44, 32, 50, 93>> -> [t |-> "array", v |-> <<1, 2>>]
    [] b = <<123, 34, 115, 97, 109, 112, 108, 101, 115, 34, 58, 91, 49, 44, 50, 93, 125>>
         -> [t |-> "object", k |-> <<115, 97, 109, 112, 108, 101, 115>>,
             v |-> [t |-> "array", v |-> <<1, 2>>]]
    [] b = <<123, 34, 110, 34, 58, 32, 45, 53, 125>>
         -> [t |-> "object", k |-> <<110>>, v |-> [t |-> "number", v |-> -5]]
    [] b = <<55>> -> [t |-> "number", v |-> 7]
    [] b = <<34, 97, 55, 34>> -> [t |-> "string", v |-> <<97, 55>>]
    [] b = <<116, 114, 117, 101>> -> [t |-> "boolean", v |-> TRUE]
    [] b = <<110, 117, 108, 108>> -> [t |-> "null"]
    [] OTHER -> [t |-> "SyntaxError"]

\* String(n) for an integer
RECURSIVE NatText(_)
NatText(n) == IF n < 10 THEN <<48 + n>> ELSE NatText(n \div 10) \o <<48 + (n % 10)>>
IntText(n) == IF n < 0 THEN <<45>> \o NatText(0 - n) ELSE NatText(n)

RECURSIVE JoinInts(_)
JoinInts(v) ==
  IF v = <<>> THEN <<>>
  ELSE IF Len(v) = 1 THEN IntText(v[1])
  ELSE IntText(v[1]) \o <<44>> \o JoinInts(Tail(v))

\* JSON.stringify(j)
RECURSIVE Stringify(_)
Stringify(j) ==
  CASE j.t = "null" -> <<110, 117, 108, 108>>
    [] j.t = "boolean" -> IF j.v THEN <<116, 114, 117, 101>>
                          ELSE <<102, 97, 108, 115, 101>>
    [] j.t = "number" -> IntText(j.v)
    [] j.t = "string" -> <<34>> \o j.v \o <<34>>
    [] j.t = "array" -> <<91>> \o JoinInts(j.v) \o <<93>>
    [] j.t = "object" -> <<123, 34>> \o j.k \o <<34, 58>> \o Stringify(j.v) \o <<125>>

\* an array of integers as the numbers a data frame carries
NumsOf(v) == [i \in 1..Len(v) |-> Normal(v[i], 0)]

\* j.samples && Array.isArray(j.samples), for j not null
HasSampleList(j) ==
  j.t = "object" /\ j.k = <<115, 97, 109, 112, 108, 101, 115>> /\ j.v.t = "array"

-----------------------------------------------------------------------------
(* Constants of the program *)

DefaultInterval == 200   \* parseInt(req.query.interval) || 200
Tick == 50               \* setTimeout(r, 50)

hopByHop == {"connection", "keep-alive", "proxy-authenticate",
             "proxy-authorization", "te", "trailers", "transfer-encoding",
             "upgrade"}

\* the terminator every poll frame is written with: the template literals
\* spell it \\n\\n, which is a backslash and the letter n, twice
Terminator == <<"\\", "n", "\\", "n">>

\* one res.write() of pollLoop: the text before the payload, what the payload
\* is made from, and the terminator
Frame(prefix, kind, arg) ==
  [prefix |-> prefix, kind |-> kind, arg |-> arg, term |-> Terminator]

\* `${r.status}`
StatusText(st) ==
  CASE st = 200 -> "200"
    [] st = 404 -> "404"

-----------------------------------------------------------------------------
(* Host Policy *)

\* isHostAllowed returning true from its catch block
isHostAllowed_FailOpen(targetUrl) ==
  IF ALLOWED_HOSTS = {} THEN TRUE
  ELSE IF UrlParses(targetUrl) THEN Hostname(targetUrl) \in ALLOWED_HOSTS
  ELSE TRUE

\* function isHostAllowed(targetUrl)
isHostAllowed(targetUrl) ==
  IF ALLOWED_HOSTS = {} THEN TRUE
  ELSE IF UrlParses(targetUrl) THEN Hostname(targetUrl) \in ALLOWED_HOSTS
  ELSE FALSE

-----------------------------------------------------------------------------
(* The state when the request reaches its route handler *)

\* headers the middleware has set before the route handler runs
MiddlewareHeaders(e) ==
  IF e = "poll_sse"
    THEN [x \in {"access-control-allow-origin"} |-> "*"]
    ELSE [x \in {"access-control-allow-origin", "access-control-allow-headers"}
            |-> IF x = "access-control-allow-origin" THEN "*"
                ELSE "Origin, X-Requested-With, Content-Type, Accept"]

Init ==
  /\ endpoint \in Endpoints
  /\ ALLOWED_HOSTS \in AllowSets
  /\ target \in Targets
  /\ intervalParam \in (IF endpoint = "poll_sse" THEN IntervalParams ELSE {NoParam})
  /\ pc = "start"
  /\ pumpPc = "idle"
  /\ fetchCalls = 0
  /\ resStatus = 0
  /\ resHeaders = MiddlewareHeaders(endpoint)
  /\ copied = {}
  /\ upstreamHeaders = {}
  /\ sends = <<>>
  /\ written = <<>>
  /\ endCalls = 0
  /\ writableEnded = FALSE
  /\ readerCreated = FALSE
  /\ cancelCalls = 0
  /\ upRead = <<>>
  /\ upstream = "none"
  /\ clientClosed = FALSE
  /\ listener = FALSE
  /\ stopped = FALSE
  /\ interval = 0
  /\ elapsed = 0
  /\ logged = <<>>
  /\ r = NoResponse
  /\ exText = <<>>
  /\ exOut = <<>>
  /\ exDone = TRUE

Relay == endpoint \in {"proxy", "relay_sse"}
Poll == endpoint = "poll_sse"

\* res.status(code).send(text): one complete response, which ends the sink
Send(code) ==
  /\ resStatus' = code
  /\ sends' = Append(sends, [status |-> code, after |-> Len(written)])
  /\ writableEnded' = TRUE

-----------------------------------------------------------------------------
(* Relay mode: GET /proxy and GET /sse of src/unnamed/part_000 *)

\* RelayAccept with the Host Policy check made before the presence check
RelayAccept_PolicyFirst ==
  /\ Relay /\ pc = "start"
  /\ IF ~isHostAllowed(target)
       THEN /\ Send(403)
            /\ pc' = "done"
            /\ UNCHANGED fetchCalls
       ELSE IF Falsy(target)
       THEN /\ Send(400)
            /\ pc' = "done"
            /\ UNCHANGED fetchCalls
       ELSE /\ fetchCalls' = fetchCalls + 1
            /\ pc' = "await_fetch"
            /\ UNCHANGED <<resStatus, sends, writableEnded>>
  /\ UNCHANGED <<reqVars, exVars, r, relayVars, pollVars, resHeaders, written, endCalls,
                 clientClosed, listener, logged>>

\* the handler up to its first await: presence check, Host Policy, fetch()
RelayAccept ==
  /\ Relay /\ pc = "start"
  /\ IF Falsy(target)
       THEN /\ Send(400)
            /\ pc' = "done"
            /\ UNCHANGED fetchCalls
       ELSE IF ~isHostAllowed(target)
       THEN /\ Send(403)
            /\ pc' = "done"
            /\ UNCHANGED fetchCalls
       ELSE /\ fetchCalls' = fetchCalls + 1
            /\ pc' = "await_fetch"
            /\ UNCHANGED <<resStatus, sends, writableEnded>>
  /\ UNCHANGED <<reqVars, exVars, r, relayVars, pollVars, resHeaders, written, endCalls,
                 clientClosed, listener, logged>>

\* the catch block of the handler: res.status(502).send('bad gateway: ...')
RelayCatch ==
  /\ logged' = Append(logged, IF endpoint = "proxy" THEN "proxy error" ELSE "sse error")
  /\ Send(502)
  /\ pc' = "done"

\* fetch() rejects: always for a target that is no URL, possibly otherwise
RelayFetchReject ==
  /\ Relay /\ pc = "await_fetch"
  /\ RelayCatch
  /\ UNCHANGED <<reqVars, exVars, r, relayVars, pollVars, fetchCalls, resHeaders, written,
                 endCalls, clientClosed, listener>>

\* Forwarded with the name compared as sent, not lowercased
Forwarded_CaseSensitive(hs) == {k \in hs : k \notin hopByHop}

\* remote.headers.forEach((v, k) => { if (!hopByHop.has(k.toLowerCase())) ... })
Forwarded(hs) == {k \in hs : ToLower(k) \notin hopByHop}

RECURSIVE CopyHeaders(_, _)
CopyHeaders(h, ks) ==
  IF ks = {} THEN h
  ELSE LET k == CHOOSE x \in ks : TRUE
       IN CopyHeaders(SetHeader(h, k, "upstream"), ks \ {k})

\* pump() up to its first await and req.on('close', ...): both run in the
\* same turn as getReader()
StartPump ==
  /\ readerCreated' = TRUE
  /\ upstream' = "open"
  /\ pumpPc' = "reading"
  /\ listener' = TRUE
  /\ pc' = "done"

\* /proxy after fetch() resolved: status, headers, then text() or the pump
ProxyFetchResolve ==
  /\ endpoint = "proxy" /\ pc = "await_fetch"
  /\ UrlParses(target)
  /\ \E st \in RelayStatuses, hs \in SUBSET UpstreamHeaderNames, hasBody \in BOOLEAN :
       /\ resStatus' = st
       /\ upstreamHeaders' = hs
       /\ copied' = Forwarded(hs)
       /\ resHeaders' = SetHeader(SetHeader(CopyHeaders(resHeaders, Forwarded(hs)),
                                            "Access-Control-Allow-Origin", "*"),
                                  "Cache-Control", "no-store")
       /\ IF hasBody
            THEN StartPump
            ELSE /\ pc' = "await_text"
                 /\ UNCHANGED <<readerCreated, upstream, pumpPc, listener>>
  /\ UNCHANGED <<reqVars, exVars, r, pollVars, fetchCalls, sends, written, endCalls,
                 writableEnded, cancelCalls, upRead, clientClosed, logged>>

\* /sse (relay) after fetch() resolved
SseFetchResolve ==
  /\ endpoint = "relay_sse" /\ pc = "await_fetch"
  /\ UrlParses(target)
  /\ \E st \in RelayStatuses, hasBody \in BOOLEAN :
       IF ~Ok(st)
         THEN /\ resStatus' = st
              /\ pc' = "await_text"
              /\ UNCHANGED <<resHeaders, readerCreated, upstream, pumpPc,
                             listener, endCalls, writableEnded>>
         ELSE /\ resHeaders' =
                   SetHeader(SetHeader(SetHeader(SetHeader(resHeaders,
                     "Content-Type", "text/event-stream; charset=utf-8"),
                     "Cache-Control", "no-store"),
                     "Connection", "keep-alive"),
                     "Access-Control-Allow-Origin", "*")
              /\ UNCHANGED resStatus
              /\ IF hasBody
                   THEN /\ StartPump
                        /\ UNCHANGED <<endCalls, writableEnded>>
                   ELSE /\ endCalls' = endCalls + 1
                        /\ writableEnded' = TRUE
                        /\ pc' = "done"
                        /\ UNCHANGED <<readerCreated, upstream, pumpPc, listener>>
  /\ UNCHANGED <<reqVars, exVars, r, pollVars, fetchCalls, copied, upstreamHeaders, sends,
                 written, cancelCalls, upRead, clientClosed, logged>>

\* remote.text() resolved: res.send(t) with the status already set
RelayTextResolve ==
  /\ Relay /\ pc = "await_text"
  /\ Send(resStatus)
  /\ pc' = "done"
  /\ UNCHANGED <<reqVars, exVars, r, relayVars, pollVars, fetchCalls, resHeaders, written,
                 endCalls, clientClosed, listener, logged>>

\* remote.text() rejected: the handler's catch block
RelayTextReject ==
  /\ Relay /\ pc = "await_text"
  /\ RelayCatch
  /\ UNCHANGED <<reqVars, exVars, r, relayVars, pollVars, fetchCalls, resHeaders, written,
                 endCalls, clientClosed, listener>>

\* the finally block of pump: try { res.end(); } catch (_) {}
PumpFinally ==
  /\ endCalls' = endCalls + 1
  /\ writableEnded' = TRUE
  /\ pumpPc' = "done"

\* ReadChunk writing the new chunk ahead of the chunks already written
ReadChunk_WritesAhead ==
  /\ Relay /\ pumpPc = "reading"
  /\ cancelCalls = 0
  /\ Len(upRead) < MaxChunks
  /\ \E c \in Chunks :
       /\ upRead' = Append(upRead, c)
       /\ written' = <<c>> \o written
  /\ UNCHANGED <<reqVars, exVars, r, pollVars, pc, pumpPc, fetchCalls, resStatus,
                 resHeaders, copied, upstreamHeaders, sends, endCalls, writableEnded,
                 readerCreated, cancelCalls, upstream, clientClosed, listener, logged>>

\* ReadChunk leaving the loop when the client has gone, the way it leaves
\* it when the sink has ended: without a reader.cancel()
ReadChunk_BreaksOnClosedClient ==
  /\ Relay /\ pumpPc = "reading"
  /\ cancelCalls = 0
  /\ Len(upRead) < MaxChunks
  /\ \E c \in Chunks :
       /\ upRead' = Append(upRead, c)
       /\ IF ~clientClosed
            THEN /\ written' = Append(written, c)
                 /\ UNCHANGED <<pumpPc, endCalls, writableEnded>>
            ELSE /\ PumpFinally
                 /\ UNCHANGED written
  /\ UNCHANGED <<reqVars, exVars, r, pollVars, pc, fetchCalls, resStatus, resHeaders,
                 copied, upstreamHeaders, sends, readerCreated, cancelCalls,
                 upstream, clientClosed, listener, logged>>

\* reader.read() resolved with a chunk: write it unless the sink has ended,
\* then read again
ReadChunk ==
  /\ Relay /\ pumpPc = "reading"
  /\ cancelCalls = 0
  /\ Len(upRead) < MaxChunks
  /\ \E c \in Chunks :
       /\ upRead' = Append(upRead, c)
       /\ IF ~writableEnded
            THEN /\ written' = Append(written, c)
                 /\ UNCHANGED <<pumpPc, endCalls, writableEnded>>
            ELSE /\ PumpFinally
                 /\ UNCHANGED written
  /\ UNCHANGED <<reqVars, exVars, r, pollVars, pc, fetchCalls, resStatus, resHeaders,
                 copied, upstreamHeaders, sends, readerCreated, cancelCalls,
                 upstream, clientClosed, listener, logged>>

\* ReadDone with res.end() called at the break as well as in the finally
ReadDone_EndsTwice ==
  /\ Relay /\ pumpPc = "reading"
  /\ endCalls' = endCalls + 2
  /\ writableEnded' = TRUE
  /\ pumpPc' = "done"
  /\ upstream' = IF upstream = "open" THEN "ended" ELSE upstream
  /\ UNCHANGED <<reqVars, exVars, r, pollVars, pc, fetchCalls, resStatus, resHeaders,
                 copied, upstreamHeaders, sends, written, readerCreated,
                 cancelCalls, upRead, clientClosed, listener, logged>>

\* reader.read() resolved with done: the upstream body ended, or the reader
\* was cancelled
ReadDone ==
  /\ Relay /\ pumpPc = "reading"
  /\ upstream' = IF upstream = "open" THEN "ended" ELSE upstream
  /\ PumpFinally
  /\ UNCHANGED <<reqVars, exVars, r, pollVars, pc, fetchCalls, resStatus, resHeaders,
                 copied, upstreamHeaders, sends, written, readerCreated,
                 cancelCalls, upRead, clientClosed, listener, logged>>

\* ReadError with the rejection reaching the handler's catch block instead
\* of pump's own
ReadError_Escalates ==
  /\ Relay /\ pumpPc = "reading"
  /\ cancelCalls = 0
  /\ RelayCatch
  /\ pumpPc' = "done"
  /\ upstream' = "errored"
  /\ UNCHANGED <<reqVars, exVars, r, pollVars, fetchCalls, resHeaders, copied,
                 upstreamHeaders, written, endCalls, readerCreated, cancelCalls,
                 upRead, clientClosed, listener>>

\* reader.read() rejected: logged by pump's catch, then the finally block
ReadError ==
  /\ Relay /\ pumpPc = "reading"
  /\ cancelCalls = 0
  /\ logged' = Append(logged, IF endpoint = "proxy" THEN "proxy pump error"
                                 ELSE "sse pump error")
  /\ upstream' = "errored"
  /\ PumpFinally
  /\ UNCHANGED <<reqVars, exVars, r, pollVars, pc, fetchCalls, resStatus, resHeaders,
                 copied, upstreamHeaders, sends, written, readerCreated,
                 cancelCalls, upRead, clientClosed, listener>>

\* the 'close' listener of the relay handlers: try { reader.cancel(); } ...
RelayOnClose ==
  /\ cancelCalls' = cancelCalls + 1
  /\ upstream' = IF upstream = "open" THEN "cancelled" ELSE upstream
  /\ UNCHANGED stopped

-----------------------------------------------------------------------------
(* Poll mode: GET /sse of src/server.js *)

\* the 'close' listener of the poll handler
PollOnClose ==
  /\ stopped' = TRUE
  /\ UNCHANGED <<cancelCalls, upstream>>

\* interval = parseInt(req.query.interval) || 200
EffectiveInterval(p) ==
  IF ParseIntNaN(p) \/ ParseInt(p) = 0 THEN DefaultInterval ELSE ParseInt(p)

\* LoopHead of a loop that tests res.writableEnded, which nothing sets while
\* the loop runs, instead of stopped
LoopHead_TestsWritableEnded ==
  /\ fetchCalls < MaxFetches
  /\ fetchCalls' = fetchCalls + 1
  /\ pc' = "await_fetch"
  /\ UNCHANGED <<endCalls, writableEnded>>

\* the head of while (!stopped): the next fetch, or res.end() after the loop
LoopHead ==
  IF stopped
    THEN /\ endCalls' = endCalls + 1
         /\ writableEnded' = TRUE
         /\ pc' = "done"
         /\ UNCHANGED fetchCalls
    ELSE /\ fetchCalls < MaxFetches
         /\ fetchCalls' = fetchCalls + 1
         /\ pc' = "await_fetch"
         /\ UNCHANGED <<endCalls, writableEnded>>

\* start = Date.now() and the first test of the sleep loop
Sleep ==
  /\ elapsed' = 0
  /\ IF ~stopped /\ 0 < interval
       THEN /\ pc' = "sleeping"
            /\ UNCHANGED <<fetchCalls, endCalls, writableEnded>>
       ELSE LoopHead

\* WriteFrame writing its frame twice
WriteFrame_Twice(f) ==
  /\ written' = Append(Append(written, f), f)
  /\ Sleep
  /\ UNCHANGED <<reqVars, exVars, relayVars, stopped, interval, resStatus, resHeaders,
                 sends, clientClosed, listener>>

\* res.write(frame), which ends the iteration's try/catch, then the sleep
WriteFrame(f) ==
  /\ written' = Append(written, f)
  /\ Sleep
  /\ UNCHANGED <<reqVars, exVars, relayVars, stopped, interval, resStatus, resHeaders,
                 sends, clientClosed, listener>>

\* an iteration that ends in its try block
TryFrame(f) ==
  /\ WriteFrame(f)
  /\ UNCHANGED logged

\* PollCatch leaving the loop after its frame: res.end() and no next iteration
PollCatch_Breaks(what) ==
  /\ logged' = Append(logged, "Poll error")
  /\ written' = Append(written, Frame(": ", "poll error", what))
  /\ endCalls' = endCalls + 1
  /\ writableEnded' = TRUE
  /\ pc' = "done"
  /\ UNCHANGED <<reqVars, exVars, relayVars, pollVars, fetchCalls, resStatus, resHeaders,
                 sends, clientClosed, listener>>

\* the catch block of the iteration
PollCatch(what) ==
  /\ logged' = Append(logged, "Poll error")
  /\ WriteFrame(Frame(": ", "poll error", what))

\* the handler: presence check, URL check, writeHead, listener, first fetch
PollAccept ==
  /\ Poll /\ pc = "start"
  /\ IF Falsy(target) \/ ~UrlParses(target)
       THEN /\ Send(400)
            /\ pc' = "done"
            /\ UNCHANGED <<resHeaders, listener, stopped, interval, fetchCalls>>
       ELSE /\ interval' = EffectiveInterval(intervalParam)
            /\ resStatus' = 200
            /\ resHeaders' =
                 SetHeader(SetHeader(SetHeader(SetHeader(resHeaders,
                   "Content-Type", "text/event-stream"),
                   "Cache-Control", "no-cache"),
                   "Connection", "keep-alive"),
                   "Access-Control-Allow-Origin", "*")
            /\ stopped' = FALSE
            /\ listener' = TRUE
            /\ fetchCalls' = fetchCalls + 1
            /\ pc' = "await_fetch"
            /\ UNCHANGED <<sends, writableEnded>>
  /\ UNCHANGED <<reqVars, exVars, r, relayVars, elapsed, written, endCalls, clientClosed,
                 logged>>

\* fetch(remote, { timeout: 5000 }) rejects: network failure or timeout
PollFetchReject ==
  /\ Poll /\ pc = "await_fetch"
  /\ PollCatch("fetch failed")
  /\ UNCHANGED r

\* fetch resolved with r: status comment, or on to the body by content type
PollFetchResolve ==
  /\ Poll /\ pc = "await_fetch"
  /\ \E resp \in Responses :
       /\ r' = resp
       /\ IF ~Ok(resp.status)
            THEN TryFrame(Frame(": ", "remote status", StatusText(resp.status)))
            ELSE /\ pc' = IF IsJsonCt(resp.ct) THEN "await_json" ELSE "await_text"
                 /\ UNCHANGED <<reqVars, exVars, relayVars, pollVars, fetchCalls,
                                resStatus, resHeaders, sends, written, endCalls,
                                writableEnded, clientClosed, listener, logged>>

\* the body has been consumed
BodyRead == r' = [r EXCEPT !.body = NoBody]

\* what the iteration does with the body b of a JSON response: the error
\* it throws, or the numbers its data frame carries
JsonOutcome(b) ==
  LET j == JsonParse(b)
  IN IF j.t = "SyntaxError" THEN [threw |-> TRUE, what |-> "SyntaxError"]
     ELSE IF j.t = "array" THEN [threw |-> FALSE, arg |-> NumsOf(j.v)]
     ELSE IF j.t = "null" THEN [threw |-> TRUE, what |-> "TypeError"]
     ELSE IF HasSampleList(j) THEN [threw |-> FALSE, arg |-> NumsOf(j.v.v)]
     ELSE [threw |-> FALSE, arg |-> parseTextToNumbers(Stringify(j))]

\* JsonOutcome, computed once for each body
JsonOutcomes == [b \in JsonBodies |-> JsonOutcome(b)]

\* r.json() read the body: JSON.parse throws, or the branches on j
PollJsonResolve ==
  /\ Poll /\ pc = "await_json"
  /\ BodyRead
  /\ LET o == JsonOutcomes[r.body]
     IN IF o.threw THEN PollCatch(o.what)
        ELSE TryFrame(Frame("data: ", "JSON.stringify", o.arg))

\* r.json() rejected: reading the body failed
PollJsonReject ==
  /\ Poll /\ pc = "await_json"
  /\ BodyRead
  /\ PollCatch("read failed")

\* what the iteration does with the body b of another response: the frame
\* of its numbers, or of its text in base64 when it has none
TextOutcome(b) ==
  LET txt == Utf8Decode(b)
      nums == parseTextToNumbers(txt)
  IN IF Len(nums) = 0
       THEN Frame("data: ", "b64", Base64Encode(Utf8Encode(txt)))
       ELSE Frame("data: ", "JSON.stringify", nums)

\* TextOutcome, computed once for each body
TextOutcomes == [b \in TextBodies |-> TextOutcome(b)]

\* r.text() resolved with txt
PollTextResolve ==
  /\ Poll /\ pc = "await_text"
  /\ BodyRead
  /\ TryFrame(TextOutcomes[r.body])

\* r.text() rejected: reading the body failed
PollTextReject ==
  /\ Poll /\ pc = "await_text"
  /\ BodyRead
  /\ PollCatch("read failed")

\* PollTick starting the next iteration at every tick, like a setInterval
PollTick_FetchEveryTick ==
  /\ Poll /\ pc = "sleeping"
  /\ elapsed' = elapsed + Tick
  /\ LoopHead
  /\ UNCHANGED <<reqVars, exVars, r, relayVars, stopped, interval, resStatus, resHeaders,
                 sends, written, clientClosed, listener, logged>>

\* PollTick with a sleep loop that tests the interval only, not stopped
PollTick_IntervalOnly ==
  /\ Poll /\ pc = "sleeping"
  /\ elapsed' = elapsed + Tick
  /\ IF elapsed' < interval
       THEN UNCHANGED <<pc, fetchCalls, endCalls, writableEnded>>
       ELSE LoopHead
  /\ UNCHANGED <<reqVars, exVars, r, relayVars, stopped, interval, resStatus, resHeaders,
                 sends, written, clientClosed, listener, logged>>

\* one setTimeout(r, 50) of the sleep fired, then the sleep loop's test
PollTick ==
  /\ Poll /\ pc = "sleeping"
  /\ elapsed' = elapsed + Tick
  /\ IF ~stopped /\ elapsed' < interval
       THEN UNCHANGED <<pc, fetchCalls, endCalls, writableEnded>>
       ELSE LoopHead
  /\ UNCHANGED <<reqVars, exVars, r, relayVars, stopped, interval, resStatus, resHeaders,
                 sends, written, clientClosed, listener, logged>>

-----------------------------------------------------------------------------
(* The client *)

\* the client disconnects: req emits 'close' once, to the listeners
\* registered at that moment
ClientClose ==
  /\ pc # "start"
  /\ ~clientClosed
  /\ clientClosed' = TRUE
  /\ IF ~listener THEN UNCHANGED <<cancelCalls, stopped, upstream>>
     ELSE IF Relay THEN RelayOnClose
     ELSE PollOnClose
  /\ UNCHANGED <<reqVars, exVars, r, pc, pumpPc, fetchCalls, resStatus, resHeaders, copied,
                 upstreamHeaders, sends, written, endCalls, writableEnded,
                 readerCreated, upRead, listener, interval, elapsed, logged>>

-----------------------------------------------------------------------------

RelayStep ==
  \/ RelayAccept
  \/ RelayFetchReject
  \/ ProxyFetchResolve
  \/ SseFetchResolve
  \/ RelayTextResolve
  \/ RelayTextReject
  \/ ReadChunk
  \/ ReadDone
  \/ ReadError

PollStep ==
  \/ PollAccept
  \/ PollFetchReject
  \/ PollFetchResolve
  \/ PollJsonResolve
  \/ PollJsonReject
  \/ PollTextResolve
  \/ PollTextReject
  \/ PollTick

Next == RelayStep \/ PollStep \/ ClientClose

Spec == Init /\ [][Next]_vars

\* the runtime runs every ready continuation: a poll-mode fetch settles
\* within its timeout, timers fire, and a read pending on a cancelled reader
\* resolves
FairSpec ==
  /\ Spec
  /\ WF_vars(PollStep)
  /\ WF_vars(cancelCalls > 0 /\ ReadDone)

-----------------------------------------------------------------------------
(* The Sample Extractor on its own *)

\* - + 0 7 . e x
TextAlphabet == {45, 43, 48, 55, 46, 101, 120}

LongTexts == {
  <<45, 51, 46, 53, 101, 50, 32, 102, 111, 111, 32, 49, 48>>,   \* -3.5e2 foo 10
  <<49, 46, 50, 46, 51>>,   \* 1.2.3
  <<43, 46, 53, 101, 45, 49, 48, 120, 55, 69, 43, 50>>,   \* +.5e-10x7E+2
  <<49, 50, 46, 32, 55, 32, 55, 32, 49, 101, 43, 32, 49, 45, 50>>,   \* 12. 7 7 1e+ 1-2
  <<48, 48, 55, 32, 49, 48, 48, 32, 45, 48>> }  \* 007 100 -0

Texts == UNION {[1..k -> TextAlphabet] : k \in 0..MaxTextLen} \cup LongTexts

ExtractInit ==
  /\ exText \in Texts
  /\ exOut = <<>>
  /\ exDone = FALSE
  /\ endpoint = "none"
  /\ ALLOWED_HOSTS = {}
  /\ target = NoParam
  /\ intervalParam = NoParam
  /\ pc = "done"
  /\ pumpPc = "idle"
  /\ fetchCalls = 0
  /\ resStatus = 0
  /\ resHeaders = MiddlewareHeaders("poll_sse")
  /\ copied = {}
  /\ upstreamHeaders = {}
  /\ sends = <<>>
  /\ written = <<>>
  /\ endCalls = 0
  /\ writableEnded = FALSE
  /\ readerCreated = FALSE
  /\ cancelCalls = 0
  /\ upRead = <<>>
  /\ upstream = "none"
  /\ clientClosed = FALSE
  /\ listener = FALSE
  /\ stopped = FALSE
  /\ interval = 0
  /\ elapsed = 0
  /\ logged = <<>>
  /\ r = NoResponse

\* one call of parseTextToNumbers(text)
ExtractCall ==
  /\ ~exDone
  /\ exOut' = parseTextToNumbers(exText)
  /\ exDone' = TRUE
  /\ UNCHANGED <<reqVars, relayVars, pollVars, r, exText, pc, fetchCalls, resStatus,
                 resHeaders, sends, written, endCalls, writableEnded,
                 clientClosed, listener, logged>>

ExtractNext == ExtractCall

ExtractSpec == ExtractInit /\ [][ExtractNext]_vars

-----------------------------------------------------------------------------
(* Properties *)

Last(q) == q[Len(q)]
AwaitPcs == {"await_fetch", "await_json", "await_text"}

\* the response has been committed to streaming: poll mode after writeHead,
\* relay mode once the pump runs
Streaming == (Poll /\ listener) \/ (Relay /\ readerCreated)

\* C1: in relay mode, whenever the client has disconnected and an upstream
\* body reader exists, reader.cancel() has been invoked. (The listener runs
\* in the turn of the disconnect, and the reader and the listener are set up
\* in one turn, so "eventually invoked" is "invoked in every such state".)
C1_DisconnectCancelsReader ==
  (Relay /\ clientClosed /\ readerCreated) => cancelCalls >= 1

\* C2: in relay mode reader.cancel() is invoked at most once and res.end() at
\* most once; a finished pump has called res.end() exactly once; and a pump
\* that is cancelled while it reads goes on to finish with exactly one
\* res.end() and one cancel.
C2_CancelOnceEndOnce ==
  /\ [](Relay => /\ cancelCalls <= 1
                 /\ endCalls <= 1
                 /\ (pumpPc = "done" => endCalls = 1))
  /\ ((Relay /\ pumpPc = "reading" /\ cancelCalls = 1)
        ~> (pumpPc = "done" /\ endCalls = 1 /\ cancelCalls = 1))

\* C2 witness: a disconnect has cancelled the reader while the pump, having
\* relayed a chunk, waits for its next read
C2_Witness ==
  Relay /\ pumpPc = "reading" /\ cancelCalls = 1 /\ Len(written) >= 1

\* C3: in poll mode the sink is ended, and the loop left, only once stopped
\* is true; every failed iteration (a caught error or a non-success status)
\* writes exactly one comment frame, and unless stopped the loop goes on to
\* its sleep or its next fetch without ending the sink.
C3_FailuresNeverEndLoop ==
  /\ [](Poll /\ (endCalls > 0 \/ (pc = "done" /\ fetchCalls > 0)) => stopped)
  /\ [][Poll /\ Len(logged') > Len(logged)
          => /\ Len(written') = Len(written) + 1
             /\ Last(written').prefix = ": "]_vars
  /\ [][Poll /\ Len(written') > Len(written) /\ Last(written').prefix = ": "
          /\ ~stopped
          => /\ pc' \in {"sleeping", "await_fetch"}
             /\ endCalls' = endCalls
             /\ writableEnded' = writableEnded]_vars

\* C3 witness: after a failed first iteration the loop has started its second
\* fetch
C3_Witness ==
  /\ Poll /\ ~stopped /\ pc = "await_fetch" /\ fetchCalls = 2
  /\ Len(logged) = 1 /\ Len(written) = 1 /\ endCalls = 0

\* C4: in poll mode, once stopped is true the loop reaches its end with
\* res.end() called exactly once; res.end() is never called twice; no fetch
\* starts while stopped; a tick that fires while stopped ends the loop, and
\* so does the completion of the iteration that was in flight.
C4_DisconnectStopsLoop ==
  /\ ((Poll /\ stopped) ~> (pc = "done" /\ endCalls = 1))
  /\ [](Poll => endCalls <= 1)
  /\ [][Poll /\ stopped => fetchCalls' = fetchCalls]_vars
  /\ [][Poll /\ stopped /\ pc = "sleeping" /\ elapsed' # elapsed
          => pc' = "done" /\ endCalls' = 1]_vars
  /\ [][Poll /\ stopped /\ pc \in AwaitPcs /\ written' # written
          => pc' = "done" /\ endCalls' = 1]_vars

\* C4 witness: the loop has ended on a disconnect during the sleep, before
\* the interval had elapsed
C4_Witness ==
  /\ Poll /\ stopped /\ pc = "done" /\ endCalls = 1
  /\ elapsed > 0 /\ elapsed < interval

\* C5: every frame written in poll mode ends with two newline characters.
C5_FramesEndWithBlankLine ==
  Poll => \A i \in 1..Len(written) : written[i].term = <<"\n", "\n">>

\* C6: a request whose url parameter is not a valid absolute URL never
\* reaches fetch(), on any endpoint and under any allow-set.
C6_InvalidUrlNeverFetched ==
  ~UrlParses(target) => fetchCalls = 0

\* C7: in relay mode a request without url is answered 400, also when the
\* allow-set would deny it, and a request whose target Host Policy denies is
\* answered 403; either way that is the only response, nothing was fetched,
\* no reader or pump exists and nothing was written.
C7_RelayRejections ==
  (Relay /\ pc # "start" /\ (Falsy(target) \/ ~isHostAllowed(target)))
    => /\ sends = <<[status |-> IF Falsy(target) THEN 400 ELSE 403, after |-> 0]>>
       /\ pc = "done"
       /\ fetchCalls = 0
       /\ pumpPc = "idle" /\ ~readerCreated /\ ~listener
       /\ written = <<>> /\ endCalls = 0

\* C7 witness: a request without url, under an allow-set that denies it, has
\* been answered
C7_Witness ==
  /\ Relay /\ Falsy(target) /\ ALLOWED_HOSTS # {} /\ pc = "done"
  /\ Len(sends) = 1

\* C8: every response sent with res.send() was sent before anything was
\* written; once streaming no step sends a response or changes the status;
\* an error logged while streaming gives a comment frame in poll mode and
\* one res.end() with nothing more written in relay mode.
C8_NoErrorStatusAfterStreaming ==
  /\ [](\A i \in 1..Len(sends) : sends[i].after = 0)
  /\ [][(Streaming \/ Len(written) > 0)
          => sends' = sends /\ resStatus' = resStatus]_vars
  /\ [][Streaming /\ Len(logged') > Len(logged)
          => IF Poll
               THEN /\ Len(written') = Len(written) + 1
                    /\ Last(written').prefix = ": "
               ELSE /\ written' = written
                    /\ endCalls' = endCalls + 1]_vars

\* C8 witness: a read error after a chunk was relayed, with no response sent
C8_Witness ==
  /\ Relay /\ Len(written) >= 1 /\ Len(logged) = 1 /\ pumpPc = "done"
  /\ sends = <<>> /\ resStatus = 200

\* C9: /proxy passes to res.setHeader exactly the upstream headers whose
\* lowercased name is not hop-by-hop; each of them is on the response; and
\* no hop-by-hop name on the response carries an upstream value.
C9_HopByHopNeverForwarded ==
  endpoint = "proxy"
    => /\ \A k \in copied : ToLower(k) \notin hopByHop
       /\ copied = {k \in upstreamHeaders : ToLower(k) \notin hopByHop}
       /\ \A k \in copied : ToLower(k) \in DOMAIN resHeaders
       /\ \A n \in DOMAIN resHeaders :
            resHeaders[n] = "upstream" => n \notin hopByHop

\* C9 witness: an upstream response with hop-by-hop headers in mixed case and
\* other headers has been forwarded
C9_Witness ==
  /\ endpoint = "proxy"
  /\ {"Connection", "te", "content-type"} \subseteq upstreamHeaders
  /\ "content-type" \in copied
  /\ resHeaders["content-type"] = "upstream"

\* C10: in poll mode a target whose host Host Policy denies is answered 403,
\* with no event-stream headers written and nothing fetched.
C10_PollAppliesHostPolicy ==
  (Poll /\ pc # "start" /\ UrlParses(target) /\ ~isHostAllowed(target))
    => /\ sends = <<[status |-> 403, after |-> 0]>>
       /\ fetchCalls = 0
       /\ "content-type" \notin DOMAIN resHeaders

\* the grammar of a numeric literal, stated on its parts: an optional sign,
\* digits with an optional decimal point before the last run of digits, and
\* an optional exponent (e or E, an optional sign, digits)
AllDigits(x) == \A i \in 1..Len(x) : x[i] \in DigitChars
IsMantissa(x) ==
  \E b \in 0..Len(x) :
    /\ AllDigits(SubSeq(x, 1, b))
    /\ \/ b < Len(x) /\ AllDigits(SubSeq(x, b + 1, Len(x)))
       \/ /\ b + 1 < Len(x) /\ x[b + 1] \in DotChars
          /\ AllDigits(SubSeq(x, b + 2, Len(x)))
IsExponent(x) ==
  \/ x = <<>>
  \/ /\ Len(x) >= 2 /\ x[1] \in ExpChars
     /\ \/ AllDigits(SubSeq(x, 2, Len(x)))
        \/ Len(x) >= 3 /\ x[2] \in SignChars /\ AllDigits(SubSeq(x, 3, Len(x)))
InGrammar(x) ==
  \E a \in 0..1, k \in 1..Len(x) :
    /\ a = 1 => x[1] \in SignChars
    /\ a < k
    /\ IsMantissa(SubSeq(x, a + 1, k))
    /\ IsExponent(SubSeq(x, k + 1, Len(x)))

\* the matches of the grammar in t from position i on: the leftmost start
\* that has a match, its longest match, then on from the end of that match
RECURSIVE GrammarMatches(_, _)
GrammarMatches(t, i) ==
  LET starts == {a \in i..Len(t) : \E b \in a..Len(t) : InGrammar(SubSeq(t, a, b))}
  IN IF starts = {} THEN <<>>
     ELSE LET a == CHOOSE x \in starts : \A y \in starts : x <= y
              ends == {b \in a..Len(t) : InGrammar(SubSeq(t, a, b))}
              b == CHOOSE x \in ends : \A y \in ends : x >= y
          IN <<SubSeq(t, a, b)>> \o GrammarMatches(t, b + 1)

\* C15: the Sample Extractor returns one number per leftmost, longest,
\* non-overlapping match of the grammar, in order of occurrence, duplicates
\* kept; "-3.5e2 foo 10" gives -350 and 10.
C15_ExtractorFollowsGrammar ==
  exDone /\ endpoint = "none"
    => LET ms == GrammarMatches(exText, 1)
       IN /\ Len(exOut) = Len(ms)
          /\ \A i \in 1..Len(ms) : exOut[i] = parseFloat(ms[i])
          /\ exText = <<45, 51, 46, 53, 101, 50, 32, 102, 111, 111, 32, 49, 48>>
               => exOut = <<[m |-> -35, e |-> 1], [m |-> 1, e |-> 1]>>
          /\ exText = <<49, 50, 46, 32, 55, 32, 55, 32, 49, 101, 43, 32, 49, 45, 50>>
               => exOut = <<[m |-> 12, e |-> 0], [m |-> 7, e |-> 0],
                            [m |-> 7, e |-> 0], [m |-> 1, e |-> 0],
                            [m |-> 1, e |-> 0], [m |-> -2, e |-> 0]>>

\* C15 witness: the extractor has returned the one number of "-7e7", a
\* signed literal with an exponent
C15_Witness ==
  /\ exDone /\ endpoint = "none"
  /\ exText = <<45, 55, 101, 55>>
  /\ exOut = <<[m |-> -7, e |-> 7]>>

\* C14: in relay mode a request with a url is denied (answered 403, nothing
\* fetched) exactly when the allow-set is not empty and the url either does
\* not parse or has a hostname that is not a member of the set, compared
\* exactly with the hostname as the URL parser gives it; otherwise it goes on
\* to the fetch.
C14_HostPolicy ==
  (Relay /\ pc # "start" /\ ~Falsy(target))
    => LET denied == /\ ALLOWED_HOSTS # {}
                     /\ ~(UrlParses(target) /\ Hostname(target) \in ALLOWED_HOSTS)
       IN /\ denied <=> (sends # <<>> /\ sends[1].status = 403 /\ fetchCalls = 0)
          /\ ~denied <=> fetchCalls = 1
          /\ (ALLOWED_HOSTS = {} /\ target = "not a url") => fetchCalls = 1
          /\ (ALLOWED_HOSTS = {"rs.local"} /\ target = "HTTP://RS.LOCAL/x")
               => fetchCalls = 1
          /\ ("RS.LOCAL" \in ALLOWED_HOSTS /\ target = "HTTP://RS.LOCAL/x")
               => resStatus = 403

\* C14 witness: a url that does not parse has been denied under an allow-set
\* that is not empty
C14_Witness ==
  /\ Relay /\ target = "not a url" /\ ALLOWED_HOSTS = {"rs.local"}
  /\ pc = "done" /\ resStatus = 403 /\ fetchCalls = 0

\* C16: in relay mode what has been written to the client is at every moment
\* a prefix of what has been read from the upstream body, in the same order;
\* a step writes at most the one chunk it has just read; and once the sink
\* has been ended nothing more is written.
C16_RelayWritesPrefixOfUpstream ==
  /\ [](Relay => /\ Len(written) <= Len(upRead)
                 /\ \A i \in 1..Len(written) : written[i] = upRead[i])
  /\ [][(Relay /\ written' # written)
          => /\ ~writableEnded
             /\ Len(upRead') = Len(upRead) + 1
             /\ written' = Append(written, Last(upRead'))]_vars
  /\ [][(Relay /\ writableEnded) => written' = written]_vars

\* C16 witness: two different chunks were relayed and the sink then ended
C16_Witness ==
  /\ Relay /\ writableEnded /\ pumpPc = "done"
  /\ Len(written) = 2 /\ written[1] # written[2]
  /\ written = upRead

\* C17: whenever the relay pump has stopped, the client sink has been ended
\* (res.end() was called, once) and the upstream body is no longer open: it
\* ended, failed or was cancelled; the step in which the pump stops is the
\* step that ends the sink.
C17_PumpStopReleasesBothEnds ==
  /\ []((Relay /\ pumpPc = "done")
          => /\ writableEnded /\ endCalls = 1
             /\ upstream \in {"ended", "errored", "cancelled"})
  /\ [][(Relay /\ pumpPc = "reading" /\ pumpPc' = "done")
          => /\ ~writableEnded /\ writableEnded'
             /\ upstream' # "open"
             /\ (upstream' = "cancelled" <=> cancelCalls > 0 /\ upstream = "cancelled")
             /\ (upstream' = "errored" <=> Len(logged') > Len(logged))]_vars

\* C17 witness: the pump has stopped after the client's disconnect cancelled
\* the reader, with a chunk relayed before
C17_Witness ==
  /\ Relay /\ pumpPc = "done" /\ upstream = "cancelled" /\ clientClosed
  /\ Len(written) = 1 /\ writableEnded

\* C18: in poll mode the fetches started exceed the iterations completed
\* (frames written) by one while an iteration awaits its fetch or its body and
\* by none otherwise; a step starts at most one fetch, and it starts a further
\* fetch only when every earlier iteration has written its frame, the client
\* is not known to have gone and the sleep has run its interval.
C18_OneFetchInFlight ==
  /\ []((Poll /\ pc # "start")
          => fetchCalls - Len(written) = (IF pc \in AwaitPcs THEN 1 ELSE 0))
  /\ [][(Poll /\ fetchCalls' # fetchCalls)
          => /\ fetchCalls' = fetchCalls + 1
             /\ pc' = "await_fetch"
             /\ Len(written') = fetchCalls
             /\ (fetchCalls >= 1 => ~stopped /\ elapsed' >= interval)]_vars

\* C18 witness: the second fetch is in flight, after the first iteration's
\* frame and a whole default interval of sleep
C18_Witness ==
  /\ Poll /\ pc = "await_fetch" /\ fetchCalls = 2 /\ Len(written) = 1
  /\ interval = DefaultInterval /\ elapsed = DefaultInterval

\* C19: in poll mode, once stopped is set no step starts a fetch; a step that
\* writes a frame then writes one frame, that of the iteration which was
\* awaiting its fetch or body, and in the same step leaves the loop and ends
\* the sink; and once the sink has ended no step writes a frame.
C19_NothingNewAfterStop ==
  /\ [][(Poll /\ stopped) => fetchCalls' = fetchCalls]_vars
  /\ [][(Poll /\ stopped /\ written' # written)
          => /\ pc \in AwaitPcs
             /\ written' = Append(written, Last(written'))
             /\ pc' = "done" /\ writableEnded' /\ endCalls' = 1]_vars
  /\ [][(Poll /\ writableEnded) => written' = written]_vars
  /\ []((Poll /\ stopped /\ pc \notin AwaitPcs) => pc \in {"sleeping", "done"})

\* C19 witness: the client left during the second iteration; its frame was
\* written (no sleep followed) and the loop ended the sink
C19_Witness ==
  /\ Poll /\ stopped /\ pc = "done" /\ writableEnded
  /\ fetchCalls = 2 /\ Len(written) = 2
  /\ interval > 0 /\ elapsed = 0

\* C20: in poll mode, whatever the interval parameter, a step that starts a
\* fetch after the first one comes after at least one 50 ms tick of sleep, and
\* after the smallest whole number of ticks that covers the effective
\* interval (200 when the parameter is absent or parses to nothing usable).
C20_TickBetweenFetches ==
  [][(Poll /\ fetchCalls >= 1 /\ fetchCalls' = fetchCalls + 1)
       => /\ elapsed' >= Tick
          /\ elapsed' >= interval /\ elapsed' - Tick < interval
          /\ (intervalParam \in {NoParam, "0"} => interval = DefaultInterval)]_vars

\* a step of pollLoop that completes an iteration: from one of its awaits to
\* the sleep, the end of the loop, or straight to the next fetch
IterationEnds ==
  /\ Poll /\ pc \in AwaitPcs
  /\ pc' \in {"sleeping", "done"} \/ fetchCalls' > fetchCalls

\* the catch block of the iteration ran in this step
CatchRan == Len(logged') > Len(logged)

\* C11 as stated: every completed poll iteration appends exactly one frame, in
\* iteration order: a comment for a fetch failure, a comment carrying the
\* status for a non-success status, whose body is never read, and a data
\* frame for a successful response.
C11_OneFramePerIteration_Original ==
  /\ []((Poll /\ pc \in {"await_json", "await_text"}) => Ok(r.status))
  /\ [][(Poll /\ written' # written) => IterationEnds]_vars
  /\ [][IterationEnds
          => /\ written' = Append(written, Last(written'))
             /\ Len(written') = fetchCalls
             /\ LET f == Last(written')
                IN IF pc = "await_fetch"
                     THEN /\ f.prefix = ": "
                          /\ IF CatchRan THEN f.kind = "poll error"
                             ELSE /\ ~Ok(r'.status)
                                  /\ f.kind = "remote status"
                                  /\ f.arg = StatusText(r'.status)
                     ELSE f.prefix = "data: "]_vars

\* C11, amended: every completed poll iteration appends exactly one frame, in
\* iteration order: a comment for a fetch failure, a comment carrying the
\* status for a non-success status, whose body is never read, and for a
\* successful response a data frame, unless reading the body, decoding it or
\* inspecting the decoded value throws (as it does for a JSON body that is
\* not JSON, or that is null): then the one frame is a poll error comment.
C11_OneFramePerIteration ==
  /\ []((Poll /\ pc \in {"await_json", "await_text"}) => Ok(r.status))
  /\ [][(Poll /\ written' # written) => IterationEnds]_vars
  /\ [][IterationEnds
          => /\ written' = Append(written, Last(written'))
             /\ Len(written') = fetchCalls
             /\ LET f == Last(written')
                IN IF pc = "await_fetch"
                     THEN /\ f.prefix = ": "
                          /\ IF CatchRan THEN f.kind = "poll error"
                             ELSE /\ ~Ok(r'.status)
                                  /\ f.kind = "remote status"
                                  /\ f.arg = StatusText(r'.status)
                     ELSE /\ Ok(r.status)
                          /\ IF CatchRan
                               THEN f.prefix = ": " /\ f.kind = "poll error"
                               ELSE f.prefix = "data: "
                          /\ (pc = "await_json"
                                /\ JsonParse(r.body).t \in {"SyntaxError", "null"})
                               => CatchRan]_vars

\* C11 witness: a data frame for the first iteration, then a successful
\* response with the JSON body null answered by a poll error comment
C11_Witness ==
  /\ Poll /\ Len(written) = 2 /\ fetchCalls = 2
  /\ written[1].prefix = "data: "
  /\ written[2].kind = "poll error" /\ written[2].arg = "TypeError"
  /\ r.status = 200

\* the frame written in this step reports a failed read of the body
ReadFailed ==
  Last(written').kind = "poll error" /\ Last(written').arg = "read failed"

\* C12: in poll mode, when a successful JSON response has been read and
\* decoded and the value is neither a list nor an object whose samples field
\* is a list, the frame of the iteration is a data frame carrying the numbers
\* the Sample Extractor finds in the value re-encoded as text (none for true
\* and for null, 7 for 7 and for "a7", -5 for {"n": -5}).
C12_OtherJsonGivesExtractedNumbers ==
  [][(/\ Poll /\ pc = "await_json" /\ written' # written
      /\ JsonParse(r.body).t \notin {"SyntaxError", "array"}
      /\ ~HasSampleList(JsonParse(r.body))
      /\ ~ReadFailed)
       => LET f == Last(written')
              j == JsonParse(r.body)
          IN /\ f.prefix = "data: " /\ f.kind = "JSON.stringify"
             /\ f.arg = parseTextToNumbers(Stringify(j))
             /\ j.t \in {"boolean", "null"} => f.arg = <<>>
             /\ j.t \in {"number", "string"} => f.arg = <<[m |-> 7, e |-> 0]>>
             /\ j.t = "object" => f.arg = <<[m |-> -5, e |-> 0]>>]_vars

\* what a client gets from the base64 digits: atob, three bytes from four
\* digits, fewer before padding
RECURSIVE Base64Decode(_)
Base64Decode(d) ==
  IF Len(d) < 4 THEN <<>>
  ELSE (IF d[3] \in Base64Pad THEN <<d[1] * 4 + (d[2] \div 16)>>
        ELSE IF d[4] \in Base64Pad
          THEN <<d[1] * 4 + (d[2] \div 16), (d[2] % 16) * 16 + (d[3] \div 4)>>
        ELSE <<d[1] * 4 + (d[2] \div 16), (d[2] % 16) * 16 + (d[3] \div 4),
               (d[3] % 4) * 64 + d[4]>>)
       \o Base64Decode(SubSeq(d, 5, Len(d)))

\* C13: in poll mode, when the body of a successful non-JSON response has
\* been read, a body without a numeric substring gives a data frame with a
\* b64 field whose base64 decodes to exactly the bytes of the body, and a
\* body with a numeric substring gives the frame of its numbers.
C13_Base64RoundTrip ==
  [][(Poll /\ pc = "await_text" /\ written' # written /\ ~CatchRan)
       => LET f == Last(written')
              ms == GrammarMatches(r.body, 1)
          IN /\ f.prefix = "data: "
             /\ IF ms = <<>>
                  THEN f.kind = "b64" /\ Base64Decode(f.arg) = r.body
                  ELSE /\ f.kind = "JSON.stringify"
                       /\ Len(f.arg) = Len(ms)
                       /\ \A i \in 1..Len(ms) : f.arg[i] = parseFloat(ms[i])]_vars

====
